---------------------------- MODULE Spec2Model ----------------------------
(***************************************************************************)
(* Model of complete_app.py, the Streamlit "Technology Selector".          *)
(*                                                                         *)
(* Streamlit re-executes the whole script, top to bottom, on every user    *)
(* interaction.  Every action below is therefore one user interaction      *)
(* followed by one complete run of the script: the grid sync (lines        *)
(* 76-107), the submit button handler (lines 128-151) and the results      *)
(* section (lines 160-284).  The variables are the session state           *)
(* (st.session_state), the state of the keyed widgets, and what the last   *)
(* run rendered.                                                           *)
(*                                                                         *)
(* Python dicts are reference objects.  The inner dicts of                 *)
(* current_selections are kept in `heap` and referred to by their ids, so  *)
(* that the shallow `.copy()` of line 136 shares them with the live grid   *)
(* exactly as the program does.                                            *)
(*                                                                         *)
(* Strings are sequences of one-character strings, so that str.strip()     *)
(* is modelled by what it does.  Floats are exact fractions [num, den].    *)
(***************************************************************************)
EXTENDS Integers, Sequences, FiniteSets, TLC

\* ------------------------------------------------------------------ bounds
\* The model keeps the first NumTech technologies and the first NumCrit
\* criteria of the program's lists.
NumTech == 2
NumCrit == 2
\* Most evaluations submitted in one session.
MaxEvals == 2
\* Most grid cells toggled in one session.
MaxToggles == 1

\* --------------------------------------------------------------- constants
AllTechnologies == <<"Tech A", "Tech B", "Tech C", "Tech D", "Tech E">>
AllCriteria == <<"Criteria 1", "Criteria 2", "Criteria 3", "Criteria 4", "Criteria 5">>

TECHNOLOGIES == SubSeq(AllTechnologies, 1, NumTech)
CRITERIA == SubSeq(AllCriteria, 1, NumCrit)

TechSet == {TECHNOLOGIES[i] : i \in 1..NumTech}
CritSet == {CRITERIA[j] : j \in 1..NumCrit}

\* Position of a technology in TECHNOLOGIES (enumerate(TECHNOLOGIES)).
TechIdx(t) == CHOOSE i \in 1..NumTech : TECHNOLOGIES[i] = t

\* What the user can type into the name box and into the comment area.
NameInputs == { <<>>, <<" ", "\t">>, <<" ", "a", " ", "b", " ">> }
CommentInputs == { <<>>, <<"o", "k", "\n">> }

\* ------------------------------------------------------------- str.strip()
Whitespace == {" ", "\t", "\n", "\r"}

RECURSIVE LStrip(_)
LStrip(s) ==
    IF s = <<>> THEN <<>>
    ELSE IF Head(s) \in Whitespace THEN LStrip(Tail(s))
    ELSE s

RECURSIVE RStrip(_)
RStrip(s) ==
    IF s = <<>> THEN <<>>
    ELSE IF s[Len(s)] \in Whitespace THEN RStrip(SubSeq(s, 1, Len(s) - 1))
    ELSE s

Strip(s) == RStrip(LStrip(s))

VARIABLES
    evaluations,         \* st.session_state.evaluations
    current_evaluator,   \* st.session_state.current_evaluator
    current_selections,  \* st.session_state.current_selections: tech -> id of its inner dict
    current_comment,     \* st.session_state.current_comment
    heap,                \* the inner dicts: id -> (criterion -> bool)
    evaluator_input,     \* value of the text_input keyed "evaluator_input"
    comments_area,       \* value of the text_area keyed "comments_area"
    now,                 \* the clock reading of the latest submit, in seconds
    toggles,             \* cells toggled so far
    message,             \* what the submit section showed: "none", "error", "success"
    results              \* what the results section rendered

vars == <<evaluations, current_evaluator, current_selections, current_comment,
          heap, evaluator_input, comments_area, now, toggles, message, results>>

\* ------------------------------------------------------ selection grid
AllFalse == [c \in CritSet |-> FALSE]

\* {tech: {criterion: False ...} ...}: NumTech fresh inner dicts, allocated
\* after the ones in h.
FreshSelections(h) == [t \in TechSet |-> Len(h) + TechIdx(t)]
FreshHeap(h) == h \o [i \in 1..NumTech |-> AllFalse]

\* The grid a tech -> id mapping denotes.
Deref(sel, h) == [t \in TechSet |-> h[sel[t]]]

\* table_df: one row per technology, read from current_selections.
TableDf(sel, h) == Deref(sel, h)

NoEdit == <<>>

\* st.data_editor: the table it was given with the user's edit applied.
DataEditor(df, edit) ==
    IF edit = NoEdit THEN df
    ELSE [t \in TechSet |->
            [c \in CritSet |->
                IF <<t, c>> = edit THEN ~df[t][c] ELSE df[t][c]]]

\* current_selections[tech][criterion] = edited_df.loc[idx, criterion]:
\* writes into the inner dicts current_selections refers to.
GridSync(sel, h, edited_df) ==
    [i \in 1..Len(h) |->
        IF \E t \in TechSet : sel[t] = i
        THEN edited_df[CHOOSE t \in TechSet : sel[t] = i]
        ELSE h[i]]

\* ------------------------------------------------------ submit handler
\* Variant: the name is tested without being stripped.
NameMissingUnstripped(name) == name = <<>>

\* `if not evaluator_name.strip()`
NameMissing(name) == Strip(name) = <<>>

\* Variant: the name is stored as typed.
EvaluatorNameUnstripped(name) == name

\* "evaluator_name": evaluator_name.strip()
EvaluatorName(name) == Strip(name)

\* "comments": comment_text.strip()
CommentText(comment) == Strip(comment)

\* datetime.now().isoformat(timespec="seconds"): the clock is read once per
\* accepted submit, a second after the previous reading.
IsoTimestamp(clock) == clock + 1

\* Variant: every technology is given the first technology's inner dict.
SelectionsCopyFirstRow(sel) == [t \in TechSet |-> sel[TECHNOLOGIES[1]]]

\* st.session_state.current_selections.copy(): a new outer dict holding the
\* same inner dicts.
SelectionsCopy(sel) == [t \in TechSet |-> sel[t]]

\* Variant: the new record is inserted at the front.
InsertEvaluation(evals, evaluation) == <<evaluation>> \o evals

\* st.session_state.evaluations.append(evaluation)
AppendEvaluation(evals, evaluation) == Append(evals, evaluation)

\* Variant: the grid is not cleared.
SelectionsKept(sel, h) == <<sel, h>>

\* Variant: the grid is cleared by writing False into the existing inner dicts.
ClearedInPlace(sel, h) ==
    <<sel, [i \in 1..Len(h) |->
              IF \E t \in TechSet : sel[t] = i THEN AllFalse ELSE h[i]]>>

\* The "Clear form" assignment to current_selections: the pair
\* <<selections, heap>> after it.
ClearedSelections(sel, h) == <<FreshSelections(h), FreshHeap(h)>>

\* --------------------------------------------------------- results
\* Variant: the results are computed whatever the store holds.
AlwaysEvaluations(evals) == TRUE

\* `if st.session_state.evaluations:`
HasEvaluations(evals) == Len(evals) > 0

\* sum(1 for eval in evaluations if eval["selections"][tech][criterion])
RECURSIVE Count(_, _, _, _)
Count(evals, h, t, c) ==
    IF evals = <<>> THEN 0
    ELSE (IF h[Head(evals).selections[t]][c] THEN 1 ELSE 0)
         + Count(Tail(evals), h, t, c)

\* Variant: the ratio is not scaled to a percentage.
PercentageUnscaled(count, n) == [num |-> count, den |-> n]

\* (count / len(evaluations)) * 100
Percentage(count, n) == [num |-> count * 100, den |-> n]

\* tech_scores[tech]: one percentage per criterion, appended in the order of
\* the loop over CRITERIA.
TechScores(evals, h) ==
    [t \in TechSet |->
        [j \in 1..NumCrit |-> Percentage(Count(evals, h, t, CRITERIA[j]), Len(evals))]]

\* One row of the detailed CSV.
CsvRow(evaluation, h, t) ==
    [Evaluator |-> evaluation.evaluator_name,
     Timestamp |-> evaluation.timestamp,
     Technology |-> t,
     Comments |-> evaluation.comments,
     cells |-> [c \in CritSet |->
                  IF h[evaluation.selections[t]][c] THEN "check" ELSE ""]]

\* Variant: the row is appended once, after the loop over the technologies.
CsvRowsOfLast(evaluation, h, i) ==
    IF i > NumTech THEN <<>> ELSE <<CsvRow(evaluation, h, TECHNOLOGIES[NumTech])>>

\* for tech in TECHNOLOGIES: csv_rows.append(row), for techs i..NumTech
RECURSIVE CsvRowsOf(_, _, _)
CsvRowsOf(evaluation, h, i) ==
    IF i > NumTech THEN <<>>
    ELSE <<CsvRow(evaluation, h, TECHNOLOGIES[i])>> \o CsvRowsOf(evaluation, h, i + 1)

\* for eval in evaluations: ...
RECURSIVE CsvRows(_, _)
CsvRows(evals, h) ==
    IF evals = <<>> THEN <<>>
    ELSE CsvRowsOf(Head(evals), h, 1) \o CsvRows(Tail(evals), h)

\* The results section: the charts and exports, or the "no evaluations
\* submitted yet" notice.
ResultsSection(evals, h) ==
    IF HasEvaluations(evals)
    THEN [kind |-> "results",
          tech_scores |-> TechScores(evals, h),
          total_evaluators |-> Len(evals),
          csv_rows |-> CsvRows(evals, h)]
    ELSE [kind |-> "info"]

\* ------------------------------------------------------------ the script
\* One run of the script with the widgets as they stand: `edit` is the cell
\* the user toggled in the data editor (or NoEdit), `button` is what
\* st.button returns in this run.
Script(edit, button) ==
    LET edited_df == DataEditor(TableDf(current_selections, heap), edit)
        synced == GridSync(current_selections, heap, edited_df)
    IN  /\ current_evaluator' = current_evaluator
        /\ IF ~button
           THEN /\ heap' = synced
                /\ message' = "none"
                /\ UNCHANGED <<evaluations, current_selections, current_comment, now>>
           ELSE IF NameMissing(evaluator_input)
           THEN /\ heap' = synced
                /\ message' = "error"
                /\ UNCHANGED <<evaluations, current_selections, current_comment, now>>
           ELSE   LET ts == IsoTimestamp(now)
                      evaluation ==
                          [evaluator_name |-> EvaluatorName(evaluator_input),
                           timestamp |-> ts,
                           selections |-> SelectionsCopy(current_selections),
                           comments |-> CommentText(comments_area)]
                      cleared == ClearedSelections(current_selections, synced)
                  IN  /\ now' = ts
                      /\ evaluations' = AppendEvaluation(evaluations, evaluation)
                      /\ current_selections' = cleared[1]
                      /\ heap' = cleared[2]
                      /\ current_comment' = <<>>
                      /\ message' = "success"
        /\ results' = ResultsSection(evaluations', heap')

\* ------------------------------------------------------------ actions
\* The user types a name; the script reruns.
EditName ==
    \E name \in NameInputs :
        /\ name # evaluator_input
        /\ evaluator_input' = name
        /\ UNCHANGED <<comments_area, toggles>>
        /\ Script(NoEdit, FALSE)

\* The user types a comment; the script reruns.
EditComment ==
    \E comment \in CommentInputs :
        /\ comment # comments_area
        /\ comments_area' = comment
        /\ UNCHANGED <<evaluator_input, toggles>>
        /\ Script(NoEdit, FALSE)

\* The user clicks one checkbox of the grid; the script reruns.
ToggleCell ==
    \E t \in TechSet, c \in CritSet :
        /\ toggles < MaxToggles
        /\ toggles' = toggles + 1
        /\ UNCHANGED <<evaluator_input, comments_area>>
        /\ Script(<<t, c>>, FALSE)

\* The user clicks "Submit Evaluation"; the script reruns with the button set.
ClickSubmit ==
    /\ NameMissing(evaluator_input) \/ Len(evaluations) < MaxEvals
    /\ UNCHANGED <<evaluator_input, comments_area, toggles>>
    /\ Script(NoEdit, TRUE)

\* The state after the first run of the script in a new session.
Init ==
    /\ evaluations = <<>>
    /\ current_evaluator = "None"
    /\ current_selections = FreshSelections(<<>>)
    /\ heap = FreshHeap(<<>>)
    /\ current_comment = <<>>
    /\ evaluator_input = <<>>
    /\ comments_area = <<>>
    /\ now = 0
    /\ toggles = 0
    /\ message = "none"
    /\ results = ResultsSection(<<>>, FreshHeap(<<>>))

Next == EditName \/ EditComment \/ ToggleCell \/ ClickSubmit

Spec == Init /\ [][Next]_vars

\* ------------------------------------------------------------ properties
\* The live selection grid, by value.
Grid == Deref(current_selections, heap)

\* The selections of the i-th record of evals, by value, in heap h.
SelectionsOf(evals, h, i) == Deref(evals[i].selections, h)

\* A string that is empty or holds whitespace only.
Blank(s) == \A k \in 1..Len(s) : s[k] \in Whitespace

\* x is s without its leading and trailing whitespace.
Trimmed(x, s) ==
    \E a, b \in 0..Len(s) :
        /\ a + b <= Len(s)
        /\ x = SubSeq(s, a + 1, Len(s) - b)
        /\ \A k \in 1..a : s[k] \in Whitespace
        /\ \A k \in (Len(s) - b + 1)..Len(s) : s[k] \in Whitespace
        /\ x # <<>> => x[1] \notin Whitespace /\ x[Len(x)] \notin Whitespace

\* C1: a submit whose evaluator name is empty or whitespace-only is rejected
\* with the validation error and changes neither the evaluation store (its
\* length, its records, their selections) nor the live selection grid.
C1_BlankSubmitChangesNothing ==
    [][(ClickSubmit /\ Blank(evaluator_input)) =>
            /\ message' = "error"
            /\ evaluations' = evaluations
            /\ \A i \in 1..Len(evaluations) :
                   SelectionsOf(evaluations', heap', i) = SelectionsOf(evaluations, heap, i)
            /\ Deref(current_selections', heap') = Grid]_vars

\* A whitespace-only name was rejected while the store held a record and the
\* grid held a checked cell.
C1_Witness ==
    /\ message = "error"
    /\ evaluator_input # <<>>
    /\ Len(evaluations) >= 1
    /\ \E t \in TechSet, c \in CritSet : Grid[t][c]

\* C2: a submit whose name is non-empty after trimming appends exactly one
\* record to the store and leaves every entry of the live grid false.
C2_ValidSubmitAppendsAndResets ==
    [][(ClickSubmit /\ ~Blank(evaluator_input)) =>
            /\ Len(evaluations') = Len(evaluations) + 1
            /\ SubSeq(evaluations', 1, Len(evaluations)) = evaluations
            /\ \A t \in TechSet, c \in CritSet :
                   Deref(current_selections', heap')[t][c] = FALSE]_vars

\* A second record was just appended, after a toggle had checked a cell of
\* the grid it was taken from, and the grid is all false again.
C2_Witness ==
    /\ message = "success"
    /\ Len(evaluations) = 2
    /\ \E t \in TechSet, c \in CritSet : SelectionsOf(evaluations, heap, 2)[t][c]
    /\ \A t \in TechSet, c \in CritSet : ~Grid[t][c]

\* No record holds an inner dict of the live grid.
NoSharing ==
    \A i \in 1..Len(evaluations) : \A t, u \in TechSet :
        evaluations[i].selections[t] # current_selections[u]

\* C3: no stored record shares selection state with the live grid, and no
\* step (a toggle, the reset on submit, a later submit) changes the
\* selections of a record already in the store.
C3_DeepCopyIsolation ==
    /\ []NoSharing
    /\ [][\A i \in 1..Len(evaluations) :
              i <= Len(evaluations') =>
                  SelectionsOf(evaluations', heap', i) = SelectionsOf(evaluations, heap, i)]_vars

\* In a render cycle after its submit, a record differs from the live grid.
C3_Witness ==
    /\ message = "none"
    /\ Len(evaluations) >= 1
    /\ \E t \in TechSet, c \in CritSet :
           SelectionsOf(evaluations, heap, 1)[t][c] # Grid[t][c]

\* C4: the store is append-only: every step leaves the store it found as a
\* prefix of the store it leaves, each record with its name, timestamp,
\* comment and selections unchanged.
C4_StoreAppendOnly ==
    [][/\ Len(evaluations') >= Len(evaluations)
       /\ \A i \in 1..Len(evaluations) :
              /\ evaluations'[i].evaluator_name = evaluations[i].evaluator_name
              /\ evaluations'[i].timestamp = evaluations[i].timestamp
              /\ evaluations'[i].comments = evaluations[i].comments
              /\ Deref(evaluations'[i].selections, heap') = SelectionsOf(evaluations, heap, i)]_vars

\* Two different records are stored, the earlier submit first.
C4_Witness ==
    /\ Len(evaluations) = 2
    /\ evaluations[1].timestamp < evaluations[2].timestamp
    /\ evaluations[1].comments # evaluations[2].comments

\* The number of records whose selections hold t, c.
Selected(t, c) ==
    Cardinality({i \in 1..Len(evaluations) : SelectionsOf(evaluations, heap, i)[t][c]})

\* C5: for a non-empty store of N records the score shown for technology t
\* and the j-th criterion is 100*K/N, K the number of records that selected
\* the pair; it lies in [0, 100]; each technology has one score per criterion.
C5_ScoresArePercentages ==
    Len(evaluations) > 0 =>
        /\ results.kind = "results"
        /\ DOMAIN results.tech_scores = TechSet
        /\ \A t \in TechSet :
              /\ Len(results.tech_scores[t]) = NumCrit
              /\ \A j \in 1..NumCrit :
                    LET p == results.tech_scores[t][j]
                    IN  /\ p.den > 0
                        /\ p.num * Len(evaluations) = 100 * Selected(t, CRITERIA[j]) * p.den
                        /\ 0 <= p.num /\ p.num <= 100 * p.den

\* One of two records selected a pair: its score is 50, and the score of
\* another criterion of the same technology is 0.
C5_Witness ==
    /\ Len(evaluations) = 2
    /\ results.kind = "results"
    /\ \E t \in TechSet : \E j, k \in 1..NumCrit :
          /\ results.tech_scores[t][j].num = 50 * results.tech_scores[t][j].den
          /\ results.tech_scores[t][k].num = 0

\* C6: with an empty store the results section shows the notice and computes
\* no scores and no export; no score is ever a division by zero.
C6_EmptyStoreShowsNotice ==
    /\ Len(evaluations) = 0 => results = [kind |-> "info"]
    /\ results.kind = "results" =>
          /\ results.total_evaluators > 0
          /\ \A t \in TechSet : \A j \in 1..NumCrit : results.tech_scores[t][j].den # 0

\* The store is still empty after a toggle and a rejected submit.
C6_Witness ==
    /\ Len(evaluations) = 0
    /\ results.kind = "info"
    /\ message = "error"
    /\ toggles > 0

\* C7: the detailed CSV has one row per (evaluation, technology): the rows of
\* the i-th evaluation are rows (i-1)*|technologies|+1 .. i*|technologies|,
\* one per technology in the technologies' order.
C7_CsvRowPerEvaluationAndTechnology ==
    results.kind = "results" =>
        /\ Len(results.csv_rows) = Len(evaluations) * NumTech
        /\ \A i \in 1..Len(evaluations) : \A j \in 1..NumTech :
              LET row == results.csv_rows[(i - 1) * NumTech + j]
              IN  /\ row.Technology = TECHNOLOGIES[j]
                  /\ row.Evaluator = evaluations[i].evaluator_name
                  /\ row.Timestamp = evaluations[i].timestamp
                  /\ row.Comments = evaluations[i].comments
                  /\ \A c \in CritSet :
                        (row.cells[c] = "check") =
                            SelectionsOf(evaluations, heap, i)[TECHNOLOGIES[j]][c]

\* The export of two evaluations, one of which checked a cell.
C7_Witness ==
    /\ Len(evaluations) = 2
    /\ results.kind = "results"
    /\ Len(results.csv_rows) = 2 * NumTech
    /\ \E k \in 1..Len(results.csv_rows) : \E c \in CritSet :
          results.csv_rows[k].cells[c] = "check"

\* Every stored name is non-empty, with no whitespace at either end.
NamesTrimmed ==
    \A i \in 1..Len(evaluations) :
        LET n == evaluations[i].evaluator_name
        IN  n # <<>> /\ n[1] \notin Whitespace /\ n[Len(n)] \notin Whitespace

\* C8: every stored evaluator name is non-empty and is the submitted name
\* without its surrounding whitespace.
C8_StoredNamesTrimmed ==
    /\ []NamesTrimmed
    /\ [][(ClickSubmit /\ ~Blank(evaluator_input)) =>
              /\ Len(evaluations') = Len(evaluations) + 1
              /\ Trimmed(evaluations'[Len(evaluations')].evaluator_name, evaluator_input)]_vars

\* A name typed with surrounding whitespace was stored without it.
C8_Witness ==
    /\ message = "success"
    /\ Len(evaluations) >= 1
    /\ evaluations[Len(evaluations)].evaluator_name # evaluator_input
    /\ evaluations[Len(evaluations)].evaluator_name = <<"a", " ", "b">>

\* C9: right after a successful submit the comment input is cleared: the
\* comment the next submit would record is empty.
C9_SubmitClearsComment ==
    message = "success" => CommentText(comments_area) = <<>>

\* C10: the selections of the record a successful submit creates equal the
\* live grid at that submit, and have an entry for every technology and
\* criterion.
C10_RecordIsSnapshot ==
    [][(ClickSubmit /\ ~Blank(evaluator_input)) =>
            /\ Len(evaluations') = Len(evaluations) + 1
            /\ DOMAIN evaluations'[Len(evaluations')].selections = TechSet
            /\ \A t \in TechSet :
                   DOMAIN SelectionsOf(evaluations', heap', Len(evaluations'))[t] = CritSet
            /\ SelectionsOf(evaluations', heap', Len(evaluations')) = Grid]_vars

\* The record just created holds a checked cell and an unchecked one.
C10_Witness ==
    /\ message = "success"
    /\ \E t, u \in TechSet, c, d \in CritSet :
          /\ SelectionsOf(evaluations, heap, Len(evaluations))[t][c]
          /\ ~SelectionsOf(evaluations, heap, Len(evaluations))[u][d]

=============================================================================
